---- MODULE Spec2Model ----
(***************************************************************************)
(* A model of the kilo-style terminal editor core (src/unnamed/part_000):  *)
(* raw-mode session, window-size probe with its cursor-position fallback,  *)
(* key decoder, wrapping cursor, frame composition and the event loop.     *)
(* Bytes are their ASCII codes; a write to the terminal is a sequence of   *)
(* bytes and the terminal's output is the sequence of the writes made.     *)
(***************************************************************************)
EXTENDS Integers, Sequences, FiniteSets, TLC

(* ------------------------------ bounds -------------------------------- *)
\* Largest ws_row / ws_col the direct geometry query reports in the model.
MaxWsRow == 2
MaxWsCol == 2
\* Largest geometry of the cursor-only specification.
MaxRows == 4
MaxCols == 4
\* Keys dispatched by the event loop before the model stops reading input.
MaxKeys == 2
\* Consecutive no-data reads the terminal lets a first-byte read see.
MaxRetries == 1
\* Bytes between the introducer and the terminator of a position report.
MaxBody == 3
\* The calls of realloc that may fail while one frame is composed.
MaxFails == 1
\* The ab_append calls made on one buffer taken alone.
MaxAppends == 4
\* The calls of editor_refresh_screen followed one after the other.
MaxCycles == 2
\* The bytes the heap can give to one buffer before realloc fails.
MaxHeap == 2400

(* ------------------------------ defines ------------------------------- *)
ESC == 27
ARROW_LEFT == 1000
ARROW_RIGHT == 1001
ARROW_UP == 1002
ARROW_DOWN == 1003
ArrowKeys == {ARROW_LEFT, ARROW_RIGHT, ARROW_UP, ARROW_DOWN}

\* CTRL_KEY(k) is k & 0x1F.
CTRL_KEY(k) == k % 32

CLEAR_SCREEN == <<27, 91, 50, 74>>
CURSOR_POSITION_REQUEST == <<27, 91, 54, 110>>
CURSOR_REPOSITION == <<27, 91, 72>>
CURSOR_HIDE == <<27, 91, 63, 50, 53, 108>>
CURSOR_SHOW == <<27, 91, 63, 50, 53, 104>>
CURSOR_BOTTOM_RIGHT == <<27, 91, 57, 57, 57, 67, 27, 91, 57, 57, 57, 66>>

\* Character codes the code names in literals.
ChLBracket == 91
ChSemicolon == 59
ChA == 65
ChB == 66
ChC == 67
ChD == 68
ChR == 82
ChQ == 113
Ch0 == 48

NoKey == 0 - 1
NoExit == 0 - 1

(* --------------------------- terminal attributes ---------------------- *)
\* struct termios, reduced to the flag sets and control characters init_term
\* touches.
Cooked ==
  [ oflag |-> {"OPOST"},
    iflag |-> {"BRKINT", "ICRNL", "IXON"},
    lflag |-> {"ECHO", "ICANON", "ISIG", "IEXTEN"},
    cflag |-> {},
    vmin  |-> 1,
    vtime |-> 0 ]

CookedNoEcho == [Cooked EXCEPT !.lflag = {"ICANON", "ISIG", "IEXTEN"}, !.cflag = {"CS8"}]

\* What the terminal may be set to when the program starts.
StartAttrs == {Cooked, CookedNoEcho}

\* The zero-initialised E.orig_term before tcgetattr fills it.
ZeroAttrs ==
  [ oflag |-> {}, iflag |-> {}, lflag |-> {}, cflag |-> {}, vmin |-> 0, vtime |-> 0 ]

\* raw_term as init_term derives it from the captured attributes.
RawOf(t) ==
  [ oflag |-> t.oflag \ {"OPOST"},
    iflag |-> t.iflag \ {"BRKINT", "INPCK", "ISTRIP", "IXON", "ICRNL"},
    lflag |-> t.lflag \ {"ECHO", "ICANON", "ISIG", "IEXTEN"},
    cflag |-> t.cflag \cup {"CS8"},
    vmin  |-> 0,
    vtime |-> 1 ]

(* ------------------------------- cursor ------------------------------- *)
\* editor_move_cursor without the row clamps of the horizontal wraps.
editor_move_cursor_noclamp(k, e) ==
  CASE k = ARROW_LEFT ->
         IF e.cx <= 0
           THEN [e EXCEPT !.cx = e.cols - 1, !.cy = e.cy - 1]
           ELSE [e EXCEPT !.cx = e.cx - 1]
    [] k = ARROW_DOWN ->
         IF e.cy >= e.rows - 1 THEN [e EXCEPT !.cy = 0] ELSE [e EXCEPT !.cy = e.cy + 1]
    [] k = ARROW_UP ->
         IF e.cy <= 0 THEN [e EXCEPT !.cy = e.rows - 1] ELSE [e EXCEPT !.cy = e.cy - 1]
    [] k = ARROW_RIGHT ->
         IF e.cx >= e.cols - 1
           THEN [e EXCEPT !.cx = 0, !.cy = e.cy + 1]
           ELSE [e EXCEPT !.cx = e.cx + 1]
    [] OTHER -> e

\* editor_move_cursor with the vertical moves stopping at the edge.
editor_move_cursor_nowrap(k, e) ==
  CASE k = ARROW_LEFT ->
         IF e.cx <= 0
           THEN [e EXCEPT !.cx = e.cols - 1,
                          !.cy = IF e.cy - 1 < 0 THEN 0 ELSE e.cy - 1]
           ELSE [e EXCEPT !.cx = e.cx - 1]
    [] k = ARROW_DOWN ->
         IF e.cy >= e.rows - 1 THEN e ELSE [e EXCEPT !.cy = e.cy + 1]
    [] k = ARROW_UP ->
         IF e.cy <= 0 THEN e ELSE [e EXCEPT !.cy = e.cy - 1]
    [] k = ARROW_RIGHT ->
         IF e.cx >= e.cols - 1
           THEN [e EXCEPT !.cx = 0,
                          !.cy = IF e.cy + 1 > e.rows - 1 THEN e.rows - 1 ELSE e.cy + 1]
           ELSE [e EXCEPT !.cx = e.cx + 1]
    [] OTHER -> e

\* editor_move_cursor whose Right at the last column goes to the first row.
editor_move_cursor_hometop(k, e) ==
  IF k = ARROW_RIGHT /\ e.cx >= e.cols - 1
    THEN [e EXCEPT !.cx = 0, !.cy = 0]
    ELSE editor_move_cursor_nowrap(k, e)

\* editor_move_cursor whose Left at column 0 stays on its row.
editor_move_cursor_leftstay(k, e) ==
  CASE k = ARROW_LEFT ->
         IF e.cx <= 0
           THEN [e EXCEPT !.cx = e.cols - 1]
           ELSE [e EXCEPT !.cx = e.cx - 1]
    [] k = ARROW_DOWN ->
         IF e.cy >= e.rows - 1 THEN [e EXCEPT !.cy = 0] ELSE [e EXCEPT !.cy = e.cy + 1]
    [] k = ARROW_UP ->
         IF e.cy <= 0 THEN [e EXCEPT !.cy = e.rows - 1] ELSE [e EXCEPT !.cy = e.cy - 1]
    [] k = ARROW_RIGHT ->
         IF e.cx >= e.cols - 1
           THEN [e EXCEPT !.cx = 0,
                          !.cy = IF e.cy + 1 > e.rows - 1 THEN e.rows - 1 ELSE e.cy + 1]
           ELSE [e EXCEPT !.cx = e.cx + 1]
    [] OTHER -> e

\* editor_move_cursor(key) on the editor state e.
editor_move_cursor(k, e) ==
  CASE k = ARROW_LEFT ->
         IF e.cx <= 0
           THEN [e EXCEPT !.cx = e.cols - 1,
                          !.cy = IF e.cy - 1 < 0 THEN 0 ELSE e.cy - 1]
           ELSE [e EXCEPT !.cx = e.cx - 1]
    [] k = ARROW_DOWN ->
         IF e.cy >= e.rows - 1 THEN [e EXCEPT !.cy = 0] ELSE [e EXCEPT !.cy = e.cy + 1]
    [] k = ARROW_UP ->
         IF e.cy <= 0 THEN [e EXCEPT !.cy = e.rows - 1] ELSE [e EXCEPT !.cy = e.cy - 1]
    [] k = ARROW_RIGHT ->
         IF e.cx >= e.cols - 1
           THEN [e EXCEPT !.cx = 0,
                          !.cy = IF e.cy + 1 > e.rows - 1 THEN e.rows - 1 ELSE e.cy + 1]
           ELSE [e EXCEPT !.cx = e.cx + 1]
    [] OTHER -> e

(* ------------------------------ key decoder --------------------------- *)
\* The outcome of one read(STDIN_FILENO, &c, 1): ret is read's return value,
\* c the byte delivered when ret = 1, err the errno left when ret = -1.
Data(b) == [ret |-> 1, c |-> b, err |-> "none"]
NoData == [ret |-> 0, c |-> 0, err |-> "none"]
Again == [ret |-> 0 - 1, c |-> 0, err |-> "EAGAIN"]
ReadFail == [ret |-> 0 - 1, c |-> 0, err |-> "EIO"]

\* The first-byte loop's test: ret == -1 && errno != EAGAIN.
IsFatalRead(o) == o.ret = 0 - 1 /\ o.err # "EAGAIN"

\* A decoder with the letters of the horizontal arrows exchanged.
DecodeSequence_swapped(s0, s1) ==
  IF s0 = ChLBracket
    THEN CASE s1 = ChA -> ARROW_UP
           [] s1 = ChB -> ARROW_DOWN
           [] s1 = ChC -> ARROW_LEFT
           [] s1 = ChD -> ARROW_RIGHT
           [] OTHER -> ESC
    ELSE ESC

\* A decoder that takes any ESC '[' x for an arrow.
DecodeSequence_anyletter(s0, s1) ==
  IF s0 = ChLBracket
    THEN CASE s1 = ChB -> ARROW_DOWN
           [] s1 = ChC -> ARROW_RIGHT
           [] s1 = ChD -> ARROW_LEFT
           [] OTHER -> ARROW_UP
    ELSE ESC

\* The switch of editor_read_key on escape_sequence[0..1], once both follow-up
\* bytes are read.
DecodeSequence(s0, s1) ==
  IF s0 = ChLBracket
    THEN CASE s1 = ChA -> ARROW_UP
           [] s1 = ChB -> ARROW_DOWN
           [] s1 = ChC -> ARROW_RIGHT
           [] s1 = ChD -> ARROW_LEFT
           [] OTHER -> ESC
    ELSE ESC

\* The conversion of editor_read_key's int to the char stored in buffer[i].
ToChar(k) == k % 256

(* ------------------------- position report parser --------------------- *)
IsDigit(b) == b >= 48 /\ b <= 57
IsSpace(b) == b = 32 \/ (b >= 9 /\ b <= 13)

\* The C string starting at s[p] (1-based): the bytes before the first NUL.
RECURSIVE CStr(_, _)
CStr(s, p) ==
  IF p > Len(s) \/ s[p] = 0 THEN <<>> ELSE <<s[p]>> \o CStr(s, p + 1)

RECURSIVE SkipSpace(_, _)
SkipSpace(s, p) ==
  IF p <= Len(s) /\ IsSpace(s[p]) THEN SkipSpace(s, p + 1) ELSE p

\* The digits from s[p] on, accumulated into acc: <<value, next position>>.
RECURSIVE ScanDigits(_, _, _)
ScanDigits(s, p, acc) ==
  IF p <= Len(s) /\ IsDigit(s[p])
    THEN ScanDigits(s, p + 1, acc * 10 + (s[p] - 48))
    ELSE <<acc, p>>

\* One %d conversion at s[p]: leading white space, an optional sign, digits.
ScanInt(s, p) ==
  LET q == SkipSpace(s, p)
      signed == q <= Len(s) /\ s[q] \in {43, 45}
      d == IF signed THEN q + 1 ELSE q
      r == ScanDigits(s, d, 0)
  IN  IF d <= Len(s) /\ IsDigit(s[d])
        THEN [ok |-> TRUE,
              val |-> IF signed /\ s[q] = 45 THEN 0 - r[1] ELSE r[1],
              next |-> r[2]]
        ELSE [ok |-> FALSE, val |-> 0, next |-> q]

\* sscanf(s, "%d;%d", rows, cols): n is the number of conversions stored.
Sscanf2(s) ==
  LET a == ScanInt(s, 1)
      b == ScanInt(s, a.next + 1)
  IN  IF ~a.ok THEN [n |-> 0, rows |-> 0, cols |-> 0]
      ELSE IF a.next > Len(s) \/ s[a.next] # ChSemicolon \/ ~b.ok
             THEN [n |-> 1, rows |-> a.val, cols |-> 0]
             ELSE [n |-> 2, rows |-> a.val, cols |-> b.val]

\* The tail of get_cursor_position on the terminated buffer: the introducer
\* test and the sscanf; ret is the function's result.
ParseReport(buf) ==
  IF buf[1] # ESC \/ buf[2] # ChLBracket
    THEN [ret |-> 0 - 1, n |-> 0, rows |-> 0, cols |-> 0]
    ELSE LET r == Sscanf2(CStr(buf, 3))
         IN  [ret |-> IF r.n = 2 THEN 0 ELSE 0 - 1, n |-> r.n, rows |-> r.rows, cols |-> r.cols]

(* ---------------------------- frame composition ----------------------- *)
CLEAR_LINE == <<27, 91, 75>>
CRLF == <<13, 10>>
WELCOME ==
  <<75, 105, 108, 111, 32, 101, 100, 105, 116, 111, 114, 32, 45, 45, 32, 86, 101,
    114, 115, 105, 111, 110, 32, 48, 46, 48, 49>>
RESTORE_MSG ==
  <<82, 101, 115, 116, 111, 114, 105, 110, 103, 32, 111, 114, 105, 103, 105, 110,
    97, 108, 32, 116, 101, 114, 109, 105, 110, 97, 108, 46, 13, 10>>
BUFFER_LABEL == <<98, 117, 102, 102, 101, 114, 58, 32>>

\* sizeof(buff_cursor_position), sizeof(buffer).
CursorBufSize == 32
ReportBufSize == 32
\* The row counter of editor_draw_rows is a uint8_t.
RowCounterMod == 256

\* printf's %d.
RECURSIVE DecDigits(_)
DecDigits(n) ==
  IF n < 10 THEN <<48 + n>> ELSE DecDigits(n \div 10) \o <<48 + (n % 10)>>

Dec(n) == IF n < 0 THEN <<45>> \o DecDigits(0 - n) ELSE DecDigits(n)

RECURSIVE Spaces(_)
Spaces(n) == IF n <= 0 THEN <<>> ELSE <<32>> \o Spaces(n - 1)

RECURSIVE Zeros(_)
Zeros(n) == IF n <= 0 THEN <<>> ELSE <<0>> \o Zeros(n - 1)

\* snprintf into a zeroed buffer of size n, taken whole: the string cut to
\* n - 1 bytes and the rest of the buffer, NUL bytes.
WholeBuffer(s, n) ==
  LET t == IF Len(s) > n - 1 THEN SubSeq(s, 1, n - 1) ELSE s
  IN  t \o Zeros(n - Len(t))

\* The diagnostic line of the last row.
DebugLine(e) ==
  <<69, 46, 114, 111, 119, 115, 32, 61, 32>> \o Dec(e.rows)
    \o <<44, 32, 69, 46, 99, 111, 108, 115, 32, 61, 32>> \o Dec(e.cols)
    \o <<44, 32, 67, 85, 82, 83, 79, 82, 32, 67, 79, 79, 82, 68, 83, 32, 61, 32, 40>>
    \o Dec(e.cx) \o <<44, 32>> \o Dec(e.cy) \o <<41>>

\* The title of row 0: the padding and the welcome string cut to the width.
TitleText(e) ==
  LET wl == IF Len(WELCOME) > e.cols THEN e.cols ELSE Len(WELCOME)
  IN  Spaces((e.cols - wl) \div 2) \o SubSeq(WELCOME, 1, wl)

\* What one pass of the row loop of editor_draw_rows appends for row y.
DrawRow(y, e) ==
  CLEAR_LINE \o Dec(y) \o <<32>>
    \o (IF y = 0 THEN TitleText(e) ELSE <<>>)
    \o (IF y < e.rows - 1 THEN CRLF ELSE DebugLine(e))

\* editor_draw_rows for rows y .. e.rows - 1 (the loop ends: e.rows < 256).
RECURSIVE DrawRows(_, _)
DrawRows(y, e) ==
  IF y < e.rows THEN DrawRow(y, e) \o DrawRows(y + 1, e) ELSE <<>>

\* The cursor-to-coordinates sequence, "\x1b[%d;%dH" of cy + 1 and cx + 1.
CursorTo(e) == <<27, 91>> \o Dec(e.cy + 1) \o <<59>> \o Dec(e.cx + 1) \o <<72>>

\* The bytes editor_refresh_screen hands to its one write.
Frame(e) ==
  CURSOR_HIDE \o CURSOR_REPOSITION \o DrawRows(0, e)
    \o WholeBuffer(CursorTo(e), CursorBufSize) \o CURSOR_SHOW

(* ----------------------------- append buffer -------------------------- *)
\* ABUF_INIT: no block, length 0.
ABUF_INIT == [str |-> <<>>, length |-> 0]

\* ab_append that forgets the buffer when realloc fails.
ab_append_failreset(a, s, ok) ==
  IF ok THEN [str |-> a.str \o s, length |-> a.length + Len(s)] ELSE ABUF_INIT

\* ab_append(ab, s, length) for the length bytes s, ok being whether realloc
\* returned a block: the bytes are copied behind the old ones and the length
\* grows by theirs; a NULL from realloc returns with ab untouched.
ab_append(a, s, ok) ==
  IF ok THEN [str |-> a.str \o s, length |-> a.length + Len(s)] ELSE a

\* The bytes of the ab_append calls of one pass of the row loop, in order.
RowAppends(r, e) ==
  LET wl == IF Len(WELCOME) > e.cols THEN e.cols ELSE Len(WELCOME)
      padding == (e.cols - wl) \div 2
  IN  <<CLEAR_LINE, Dec(r) \o <<32>>>>
        \o (IF r = 0
              THEN [j \in 1..padding |-> <<32>>] \o <<SubSeq(WELCOME, 1, wl)>>
              ELSE <<>>)
        \o <<IF r < e.rows - 1 THEN CRLF ELSE DebugLine(e)>>

(* -------------------------------- state ------------------------------- *)
VARIABLES
  pc,        \* where main is: the function that runs or waits next
  E,         \* struct editor_config E
  term,      \* the attributes the terminal driver holds
  handlers,  \* the functions registered with atexit, oldest first
  out,       \* the writes made to STDOUT_FILENO, in order
  perr,      \* the labels passed to perror, in order
  exitCode,  \* the exit status, NoExit while no exit was called
  restores,  \* the result of tcsetattr in each run of restore_term, in order
  rk,        \* editor_read_key: the read it is at, the outcomes of its reads
  key,       \* the value editor_read_key returned last, NoKey during a call
  buffer,    \* get_cursor_position: buffer[0 .. i-1], so i = Len(buffer)
  resp,      \* the read outcomes the terminal still holds for the report
  sent,      \* the whole answer of the terminal to the position request
  gws,       \* get_window_size: "none", "direct", "fallback", then "ok" or "failed"
  c,         \* editor_process_keypress: the key it dispatched last
  prev,      \* the cursor <<cx, cy>> before that dispatch
  before,    \* the key dispatched before c since the last frame, and the cursor before it
  keys,      \* the number of keys dispatched
  ab,        \* editor_refresh_screen: its struct abuf, the bytes str holds and length
  todo,      \* the ab_append calls still to make before the next branch: their bytes
  y,         \* editor_draw_rows: the row counter
  fails,     \* the number of calls of realloc that have failed
  calls      \* the ab_append calls made on ab, in order: the bytes and realloc's success

\* The variables of the frame under construction.
frameVars == <<ab, todo, y, fails, calls>>

vars ==
  <<pc, E, term, handlers, out, perr, exitCode, restores, rk, key, buffer, resp,
    sent, gws, c, prev, before, keys, ab, todo, y, fails, calls>>

\* The bytes a key press can deliver in the model: ESC, '[', the four arrow
\* letters and Ctrl-Q.
KeyBytes == {ESC, ChLBracket, ChA, ChB, ChC, ChD, CTRL_KEY(ChQ)}

\* The bytes of a position report's body in the model: two digits and ';'.
BodyBytes == {Ch0 + 2, Ch0 + 3, ChSemicolon}

RECURSIVE SeqsUpTo(_, _)
SeqsUpTo(S, n) ==
  IF n = 0 THEN {<<>>}
  ELSE LET shorter == SeqsUpTo(S, n - 1)
       IN  shorter \cup {Append(q, x) : q \in shorter, x \in S}

DataSeq(s) == [j \in 1..Len(s) |-> Data(s[j])]

\* How an answer to the position request may start: nothing, a lone ESC, the
\* introducer pair, the pair with a pause after ESC, the pair after ESC and two
\* stray bytes.
ReportPrefixes ==
  { <<>>,
    <<Data(ESC)>>,
    <<Data(ESC), Data(ChLBracket)>>,
    <<Data(ESC), NoData, Data(ChLBracket)>>,
    <<Data(ESC), Data(ChSemicolon), Data(ChSemicolon), Data(ChLBracket)>> }

\* The answers of the terminal: a prefix, a body, and the terminator or not.
Responses ==
  { p \o DataSeq(b) \o t :
      p \in ReportPrefixes, b \in SeqsUpTo(BodyBytes, MaxBody), t \in {<<>>, <<Data(ChR)>>} }

\* What the uninitialised buffer[1 ..] may hold up to its first NUL.
Garbage == {<<>>, <<ChR>>}

\* No key was dispatched before the last one.
NoMove == <<NoKey, <<0, 0>>>>

\* No frame is under construction.
NoFrame ==
  /\ ab = ABUF_INIT
  /\ todo = <<>>
  /\ y = 0
  /\ fails = 0
  /\ calls = <<>>

Init ==
  /\ pc = "init_term"
  /\ E = [cx |-> 0, cy |-> 0, rows |-> 0, cols |-> 0, orig_term |-> ZeroAttrs]
  /\ term \in StartAttrs
  /\ handlers = <<>>
  /\ out = <<>>
  /\ perr = <<>>
  /\ exitCode = NoExit
  /\ restores = <<>>
  /\ rk = [pos |-> "idle", reads |-> <<>>]
  /\ key = NoKey
  /\ buffer = <<>>
  /\ resp = <<>>
  /\ sent = <<>>
  /\ gws = "none"
  /\ c = NoKey
  /\ prev = <<0, 0>>
  /\ before = NoMove
  /\ keys = 0
  /\ NoFrame

(* ------------------------------ process exit -------------------------- *)
\* error_handler(s) followed by the exit(1) it ends with: the two writes, the
\* perror, and the hand-over to the atexit handlers (or the end, with none).
ErrorExit(label, o) ==
  /\ out' = o \o <<CLEAR_SCREEN, CURSOR_REPOSITION>>
  /\ perr' = Append(perr, label)
  /\ exitCode' = 1
  /\ pc' = IF handlers = <<>> THEN "done" ELSE "exit"

(* ------------------------------- init_term ---------------------------- *)
\* init_term with the atexit registration after the switch to raw mode.
InitTerm_lateatexit ==
  /\ pc = "init_term"
  /\ \/ /\ ErrorExit("tcgetattr", out)
        /\ UNCHANGED <<E, term, handlers>>
     \/ /\ E' = [E EXCEPT !.orig_term = term]
        /\ term' = RawOf(term)
        /\ handlers' = Append(handlers, "restore_term")
        /\ pc' = "init_editor"
        /\ UNCHANGED <<out, perr, exitCode>>
     \/ /\ E' = [E EXCEPT !.orig_term = term]
        /\ UNCHANGED <<handlers, term>>
        /\ ErrorExit("tcsetattr", out)
  /\ UNCHANGED <<restores, rk, key, buffer, resp, sent, gws, c, prev, before, keys>>
  /\ UNCHANGED frameVars

\* init_term: tcgetattr fails; or it succeeds and tcsetattr succeeds; or it
\* succeeds and tcsetattr fails.
InitTerm ==
  /\ pc = "init_term"
  /\ \/ /\ ErrorExit("tcgetattr", out)
        /\ UNCHANGED <<E, term, handlers>>
     \/ /\ E' = [E EXCEPT !.orig_term = term]
        /\ handlers' = Append(handlers, "restore_term")
        /\ term' = RawOf(term)
        /\ pc' = "init_editor"
        /\ UNCHANGED <<out, perr, exitCode>>
     \/ /\ E' = [E EXCEPT !.orig_term = term]
        /\ handlers' = Append(handlers, "restore_term")
        /\ UNCHANGED term
        /\ out' = out \o <<CLEAR_SCREEN, CURSOR_REPOSITION>>
        /\ perr' = Append(perr, "tcsetattr")
        /\ exitCode' = 1
        /\ pc' = "exit"
  /\ UNCHANGED <<restores, rk, key, buffer, resp, sent, gws, c, prev, before, keys>>
  /\ UNCHANGED frameVars

(* ----------------------- init_editor, get_window_size ----------------- *)
\* What ioctl(TIOCGWINSZ) may answer: a failure, or a struct winsize.
IoctlOutcomes ==
  {[ret |-> 0 - 1, ws_row |-> 0, ws_col |-> 0]}
    \cup {[ret |-> 0, ws_row |-> r, ws_col |-> w] : r \in 0..MaxWsRow, w \in 0..MaxWsCol}

\* The test of get_window_size that sends it to the fallback.
NeedsFallback(io) == io.ret = 0 - 1 \/ io.ws_col = 0

\* init_editor up to the first read of the fallback: the cursor reset, the
\* direct query, and on the fallback the two writes (either may fail).
InitEditor ==
  /\ pc = "init_editor"
  /\ \E io \in IoctlOutcomes :
       \/ /\ ~NeedsFallback(io)
          /\ E' = [E EXCEPT !.cx = 0, !.cy = 0, !.rows = io.ws_row, !.cols = io.ws_col]
          /\ gws' = "direct"
          /\ pc' = "refresh"
          /\ UNCHANGED <<out, perr, exitCode, rk, resp, sent>>
       \/ /\ NeedsFallback(io)
          /\ E' = [E EXCEPT !.cx = 0, !.cy = 0]
          /\ gws' = "failed"
          /\ \/ ErrorExit("get_window_size", out)
             \/ ErrorExit("get_window_size", Append(out, CURSOR_BOTTOM_RIGHT))
          /\ UNCHANGED <<rk, resp, sent>>
       \/ /\ NeedsFallback(io)
          /\ E' = [E EXCEPT !.cx = 0, !.cy = 0]
          /\ gws' = "fallback"
          /\ out' = out \o <<CURSOR_BOTTOM_RIGHT, CURSOR_POSITION_REQUEST>>
          /\ \E r \in Responses : resp' = r /\ sent' = r
          /\ rk' = [pos |-> "first", reads |-> <<>>]
          /\ pc' = "get_cursor_position"
          /\ UNCHANGED <<perr, exitCode>>
  /\ UNCHANGED <<term, handlers, restores, key, buffer, c, prev, before, keys>>
  /\ UNCHANGED frameVars

(* --------------------------- get_cursor_position ---------------------- *)
\* get_cursor_position after editor_read_key returned k: the store into
\* buffer[i], the loop test, and past the loop the terminator, the printf, the
\* parse and init_editor's test of the result.
StoreKey(k, rds) ==
  LET ch == ToChar(k)
      stop == ch = ChR
      i2 == IF stop THEN Len(buffer) ELSE Len(buffer) + 1
  IN  IF ~stop /\ i2 < ReportBufSize - 1
        THEN /\ buffer' = Append(buffer, ch)
             /\ rk' = [pos |-> "first", reads |-> rds]
             /\ UNCHANGED <<pc, E, out, perr, exitCode, gws>>
        ELSE LET buf == Append(IF stop THEN buffer ELSE Append(buffer, ch), 0)
                 r == ParseReport(buf)
             IN  /\ buffer' = buf
                 /\ rk' = [pos |-> "idle", reads |-> rds]
                 /\ \E g \in (IF i2 = 0 THEN Garbage ELSE {CStr(buf, 2)}) :
                      LET o == Append(out, BUFFER_LABEL \o g \o CRLF)
                      IN  IF r.ret = 0
                            THEN /\ E' = [E EXCEPT !.rows = r.rows, !.cols = r.cols]
                                 /\ gws' = "ok"
                                 /\ pc' = "refresh"
                                 /\ out' = o
                                 /\ UNCHANGED <<perr, exitCode>>
                            ELSE /\ E' = [E EXCEPT !.rows = IF r.n >= 1 THEN r.rows ELSE @]
                                 /\ gws' = "failed"
                                 /\ ErrorExit("get_window_size", o)

(* --------------------------- editor_process_keypress ------------------ *)
\* A dispatch that moves the cursor on every key.
DispatchKey_allmove(k, e) == editor_move_cursor(ARROW_RIGHT, e)

\* The switch of editor_process_keypress on a key other than the quit key.
DispatchKey(k, e) == IF k \in ArrowKeys THEN editor_move_cursor(k, e) ELSE e

\* editor_process_keypress after editor_read_key returned k.
ProcessKey(k, rds) ==
  /\ c' = k
  /\ prev' = <<E.cx, E.cy>>
  /\ before' = <<c, prev>>
  /\ keys' = keys + 1
  /\ rk' = [pos |-> "idle", reads |-> rds]
  /\ IF k = CTRL_KEY(ChQ)
       THEN /\ out' = out \o <<CLEAR_SCREEN, CURSOR_REPOSITION>>
            /\ exitCode' = 0
            /\ pc' = IF handlers = <<>> THEN "done" ELSE "exit"
            /\ UNCHANGED E
       ELSE /\ E' = DispatchKey(k, E)
            /\ pc' = "refresh"
            /\ UNCHANGED <<out, exitCode>>
  /\ UNCHANGED <<perr, buffer, gws>>

(* ------------------------------ editor_read_key ----------------------- *)
\* What the next read may return: the terminal's answer while the report is
\* read (silence or a failure once it is used up), any key byte, no data or a
\* failure in the event loop.
NextOutcomes ==
  IF pc = "get_cursor_position"
    THEN IF resp # <<>> THEN {Head(resp)} ELSE {NoData, ReadFail}
    ELSE {Data(b) : b \in KeyBytes} \cup {NoData, Again, ReadFail}

Consume == resp' = IF resp # <<>> THEN Tail(resp) ELSE resp

\* editor_read_key returns k to its caller.
Return(k, rds) ==
  /\ key' = k
  /\ IF pc = "get_cursor_position"
       THEN StoreKey(k, rds) /\ UNCHANGED <<c, prev, before, keys>>
       ELSE ProcessKey(k, rds)

\* The reads of the call under way: none yet when the last call has returned.
CurrentReads == IF key # NoKey THEN <<>> ELSE rk.reads

\* One pass of the loop on the first byte: a byte (ESC starts a sequence, any
\* other byte is the key), a genuine failure (fatal), or no data (retry).
ReadFirst ==
  /\ pc \in {"get_cursor_position", "editor_process_keypress"}
  /\ rk.pos = "first"
  /\ pc = "editor_process_keypress" => keys < MaxKeys
  /\ \E o \in NextOutcomes :
       LET rds == Append(CurrentReads, o)
       IN  /\ Consume
           /\ IF o.ret = 1
                THEN IF o.c = ESC
                       THEN /\ rk' = [pos |-> "seq0", reads |-> rds]
                            /\ key' = NoKey
                            /\ UNCHANGED <<pc, E, out, perr, exitCode, buffer, gws, c, prev, before, keys>>
                       ELSE Return(o.c, rds)
                ELSE IF IsFatalRead(o)
                       THEN /\ rk' = [pos |-> "idle", reads |-> rds]
                            /\ key' = NoKey
                            /\ ErrorExit("read", out)
                            /\ UNCHANGED <<E, buffer, gws, c, prev, before, keys>>
                       ELSE /\ Len(CurrentReads) < MaxRetries
                            /\ rk' = [pos |-> "first", reads |-> rds]
                            /\ key' = NoKey
                            /\ UNCHANGED <<pc, E, out, perr, exitCode, buffer, gws, c, prev, before, keys>>
  /\ UNCHANGED <<term, handlers, restores, sent>>
  /\ UNCHANGED frameVars

\* The read of escape_sequence[0]: anything but one byte returns ESC.
ReadSeq0 ==
  /\ pc \in {"get_cursor_position", "editor_process_keypress"}
  /\ rk.pos = "seq0"
  /\ \E o \in NextOutcomes :
       LET rds == Append(rk.reads, o)
       IN  /\ Consume
           /\ IF o.ret # 1
                THEN Return(ESC, rds)
                ELSE /\ rk' = [pos |-> "seq1", reads |-> rds]
                     /\ UNCHANGED <<pc, E, out, perr, exitCode, key, buffer, gws, c, prev, before, keys>>
  /\ UNCHANGED <<term, handlers, restores, sent>>
  /\ UNCHANGED frameVars

\* The read of escape_sequence[1] and the decoding of the pair.
ReadSeq1 ==
  /\ pc \in {"get_cursor_position", "editor_process_keypress"}
  /\ rk.pos = "seq1"
  /\ \E o \in NextOutcomes :
       LET rds == Append(rk.reads, o)
           s0 == rk.reads[Len(rk.reads)].c
       IN  /\ Consume
           /\ IF o.ret # 1 THEN Return(ESC, rds) ELSE Return(DecodeSequence(s0, o.c), rds)
  /\ UNCHANGED <<term, handlers, restores, sent>>
  /\ UNCHANGED frameVars

(* --------------------------- editor_refresh_screen -------------------- *)
\* editor_refresh_screen that returns without its write.
EditorRefreshScreen_nowrite ==
  /\ pc = "refresh"
  /\ pc' = "editor_process_keypress"
  /\ rk' = [pos |-> "first", reads |-> <<>>]
  /\ key' = NoKey
  /\ buffer' = <<>>
  /\ resp' = <<>>
  /\ sent' = <<>>
  /\ c' = NoKey
  /\ prev' = <<E.cx, E.cy>>
  /\ before' = NoMove
  /\ UNCHANGED <<E, term, handlers, out, perr, exitCode, restores, gws, keys>>
  /\ UNCHANGED frameVars

\* editor_refresh_screen: the frame is composed and written once; main then
\* calls editor_process_keypress, which calls editor_read_key. With 256 rows
\* or more the uint8_t row counter never reaches E.rows. Every realloc of the
\* frame succeeds here; SpecRender takes the call one ab_append at a time,
\* with failing calls of realloc.
EditorRefreshScreen ==
  /\ pc = "refresh"
  /\ IF E.rows >= RowCounterMod
       THEN pc' = "editor_draw_rows" /\ UNCHANGED <<out, rk>>
       ELSE /\ out' = Append(out, Frame(E))
            /\ pc' = "editor_process_keypress"
            /\ rk' = [pos |-> "first", reads |-> <<>>]
  /\ key' = NoKey
  /\ buffer' = <<>>
  /\ resp' = <<>>
  /\ sent' = <<>>
  /\ c' = NoKey
  /\ prev' = <<E.cx, E.cy>>
  /\ before' = NoMove
  /\ UNCHANGED <<E, term, handlers, perr, exitCode, restores, gws, keys>>
  /\ UNCHANGED frameVars

(* ------------------------------- restore_term ------------------------- *)
\* The status of a process the C library stops when exit is entered again.
ExitCrash == 128 + 6

\* restore_term without the tcsetattr.
RestoredAttrs_none(t, e) == t

\* The attributes a successful tcsetattr of restore_term installs.
RestoredAttrs(t, e) == e.orig_term

\* exit runs the atexit handler restore_term: the printf, then tcsetattr. On
\* its failure error_handler calls exit(1) from inside the handler, which is
\* undefined: the C library either goes on to end the process with status 1
\* or stops it.
RestoreTerm ==
  /\ pc = "exit"
  /\ handlers # <<>>
  /\ handlers' = SubSeq(handlers, 1, Len(handlers) - 1)
  /\ \/ /\ term' = RestoredAttrs(term, E)
        /\ restores' = Append(restores, TRUE)
        /\ out' = Append(out, RESTORE_MSG)
        /\ pc' = "done"
        /\ UNCHANGED <<perr, exitCode>>
     \/ /\ UNCHANGED term
        /\ restores' = Append(restores, FALSE)
        /\ out' = out \o <<RESTORE_MSG, CLEAR_SCREEN, CURSOR_REPOSITION>>
        /\ perr' = Append(perr, "tcsetattr")
        /\ exitCode' \in {1, ExitCrash}
        /\ pc' = "done"
  /\ UNCHANGED <<E, rk, key, buffer, resp, sent, gws, c, prev, before, keys>>
  /\ UNCHANGED frameVars

(* ---------------------------- specifications -------------------------- *)
Next ==
  \/ InitTerm
  \/ InitEditor
  \/ ReadFirst
  \/ ReadSeq0
  \/ ReadSeq1
  \/ EditorRefreshScreen
  \/ RestoreTerm

Spec == Init /\ [][Next]_vars

\* The cursor alone: every geometry of the bounds, the cursor of init_editor,
\* and arrow keys dispatched without end.
InitCursor ==
  /\ pc = "cursor"
  /\ \E r \in 1..MaxRows, w \in 1..MaxCols :
       E = [cx |-> 0, cy |-> 0, rows |-> r, cols |-> w, orig_term |-> Cooked]
  /\ term = RawOf(Cooked)
  /\ handlers = <<"restore_term">>
  /\ out = <<>>
  /\ perr = <<>>
  /\ exitCode = NoExit
  /\ restores = <<>>
  /\ rk = [pos |-> "idle", reads |-> <<>>]
  /\ key = NoKey
  /\ buffer = <<>>
  /\ resp = <<>>
  /\ sent = <<>>
  /\ gws = "direct"
  /\ c = NoKey
  /\ prev = <<0, 0>>
  /\ before = NoMove
  /\ keys = 0
  /\ NoFrame

\* editor_process_keypress on an arrow key.
MoveCursor ==
  /\ pc = "cursor"
  /\ \E k \in ArrowKeys :
       /\ c' = k
       /\ prev' = <<E.cx, E.cy>>
       /\ before' = <<c, prev>>
       /\ E' = DispatchKey(k, E)
  /\ UNCHANGED <<pc, term, handlers, out, perr, exitCode, restores, rk, key, buffer,
                 resp, sent, gws, keys>>
  /\ UNCHANGED frameVars

NextCursor == MoveCursor

SpecCursor == InitCursor /\ [][NextCursor]_vars

(* ------------------- editor_refresh_screen, call by call -------------- *)
\* One call of editor_refresh_screen for every geometry of the bounds and
\* every cursor inside it.
InitRender ==
  /\ pc = "editor_refresh_screen"
  /\ \E r \in 1..MaxRows, w \in 1..MaxCols, cy \in 0..(MaxRows - 1), cx \in 0..(MaxCols - 1) :
       /\ cy < r /\ cx < w
       /\ E = [cx |-> cx, cy |-> cy, rows |-> r, cols |-> w, orig_term |-> Cooked]
  /\ term = RawOf(Cooked)
  /\ handlers = <<"restore_term">>
  /\ out = <<>>
  /\ perr = <<>>
  /\ exitCode = NoExit
  /\ restores = <<>>
  /\ rk = [pos |-> "idle", reads |-> <<>>]
  /\ key = NoKey
  /\ buffer = <<>>
  /\ resp = <<>>
  /\ sent = <<>>
  /\ gws = "direct"
  /\ c = NoKey
  /\ prev = <<0, 0>>
  /\ before = NoMove
  /\ keys = 0
  /\ NoFrame

\* What no step of the composition of a frame changes.
RenderFrame ==
  UNCHANGED <<E, term, handlers, perr, exitCode, restores, rk, key, buffer, resp,
              sent, gws, c, prev, before, keys, calls>>

\* An entry of editor_refresh_screen that takes the buffer as the last call
\* left it.
RenderStart_keep ==
  /\ pc = "editor_refresh_screen"
  /\ todo' = <<CURSOR_HIDE, CURSOR_REPOSITION>>
  /\ pc' = "render_head"
  /\ UNCHANGED <<ab, out, y, fails>>
  /\ RenderFrame

\* The entry of editor_refresh_screen: the empty buffer, and the first two
\* ab_append calls to come.
RenderStart ==
  /\ pc = "editor_refresh_screen"
  /\ ab' = ABUF_INIT
  /\ todo' = <<CURSOR_HIDE, CURSOR_REPOSITION>>
  /\ pc' = "render_head"
  /\ UNCHANGED <<out, y, fails>>
  /\ RenderFrame

\* An ab_append that hands its bytes to the terminal at once.
RenderAppend_writethrough ==
  /\ pc \in {"render_head", "editor_draw_rows", "render_tail"}
  /\ todo # <<>>
  /\ \E ok \in BOOLEAN :
       /\ ~ok => fails < MaxFails
       /\ ab' = ab_append(ab, Head(todo), ok)
       /\ fails' = IF ok THEN fails ELSE fails + 1
       /\ out' = IF ok THEN Append(out, Head(todo)) ELSE out
  /\ todo' = Tail(todo)
  /\ UNCHANGED <<pc, y>>
  /\ RenderFrame

\* One ab_append call of the frame: realloc gives a block or fails.
RenderAppend ==
  /\ pc \in {"render_head", "editor_draw_rows", "render_tail"}
  /\ todo # <<>>
  /\ \E ok \in BOOLEAN :
       /\ ~ok => fails < MaxFails
       /\ ab' = ab_append(ab, Head(todo), ok)
       /\ fails' = IF ok THEN fails ELSE fails + 1
  /\ todo' = Tail(todo)
  /\ UNCHANGED <<pc, out, y>>
  /\ RenderFrame

\* The test of the row loop with the counter at r: the calls of row r, or past
\* the loop the two calls that end the frame (the whole of
\* buff_cursor_position, then the show-cursor sequence).
LoopTest(r) ==
  /\ y' = r
  /\ IF r < E.rows
       THEN /\ todo' = RowAppends(r, E)
            /\ pc' = "editor_draw_rows"
       ELSE /\ todo' = <<WholeBuffer(CursorTo(E), CursorBufSize), CURSOR_SHOW>>
            /\ pc' = "render_tail"
  /\ UNCHANGED <<ab, out, fails>>
  /\ RenderFrame

\* editor_draw_rows is entered: the counter starts at 0.
DrawRowsEnter ==
  /\ pc = "render_head"
  /\ todo = <<>>
  /\ LoopTest(0)

\* The end of the body of the row loop: y++ in a uint8_t, and the test.
DrawRowsNext ==
  /\ pc = "editor_draw_rows"
  /\ todo = <<>>
  /\ LoopTest((y + 1) % RowCounterMod)

\* The write of ab.length bytes of ab.str, and ab_free.
RenderWrite ==
  /\ pc = "render_tail"
  /\ todo = <<>>
  /\ out' = Append(out, SubSeq(ab.str, 1, ab.length))
  /\ pc' = "written"
  /\ UNCHANGED <<ab, todo, y, fails>>
  /\ RenderFrame

NextRender ==
  \/ RenderStart
  \/ RenderAppend
  \/ DrawRowsEnter
  \/ DrawRowsNext
  \/ RenderWrite

SpecRender == InitRender /\ [][NextRender]_vars

(* ------------------ editor_refresh_screen, call after call ------------ *)
\* Keys that editor_process_keypress dispatches without moving the cursor.
StillKeys == {ESC, ChA}

\* The first call of editor_refresh_screen for every window size of the bounds
\* that the direct query resolves, and every cursor inside it.
InitCycles ==
  /\ pc = "editor_refresh_screen"
  /\ \E r \in 1..MaxWsRow, w \in 1..MaxWsCol, cy \in 0..(MaxWsRow - 1), cx \in 0..(MaxWsCol - 1) :
       /\ cy < r /\ cx < w
       /\ E = [cx |-> cx, cy |-> cy, rows |-> r, cols |-> w, orig_term |-> Cooked]
  /\ term = RawOf(Cooked)
  /\ handlers = <<"restore_term">>
  /\ out = <<>>
  /\ perr = <<>>
  /\ exitCode = NoExit
  /\ restores = <<>>
  /\ rk = [pos |-> "idle", reads |-> <<>>]
  /\ key = NoKey
  /\ buffer = <<>>
  /\ resp = <<>>
  /\ sent = <<>>
  /\ gws = "direct"
  /\ c = NoKey
  /\ prev = <<0, 0>>
  /\ before = NoMove
  /\ keys = 0
  /\ NoFrame

\* Back in main after a frame: editor_process_keypress dispatches a key that
\* leaves the cursor, and the loop calls editor_refresh_screen again.
RenderAgain ==
  /\ pc = "written"
  /\ Len(out) < MaxCycles
  /\ \E k \in StillKeys :
       /\ c' = k
       /\ key' = k
       /\ E' = DispatchKey(k, E)
  /\ prev' = <<E.cx, E.cy>>
  /\ before' = <<c, prev>>
  /\ keys' = keys + 1
  /\ pc' = "editor_refresh_screen"
  /\ UNCHANGED <<term, handlers, out, perr, exitCode, restores, rk, buffer, resp, sent, gws>>
  /\ UNCHANGED frameVars

NextCycles ==
  \/ NextRender
  \/ RenderAgain

SpecCycles == InitCycles /\ [][NextCycles]_vars

(* ------------------- editor_refresh_screen, tall windows -------------- *)
\* The row counts at the end of the range of the uint8_t row counter: the
\* last one it can reach, and the first one it cannot.
TallRows == {RowCounterMod - 1, RowCounterMod}

\* One call of editor_refresh_screen in a window of one column and a row
\* count of TallRows, the cursor at the top.
InitRows ==
  /\ pc = "editor_refresh_screen"
  /\ \E r \in TallRows :
       E = [cx |-> 0, cy |-> 0, rows |-> r, cols |-> 1, orig_term |-> Cooked]
  /\ term = RawOf(Cooked)
  /\ handlers = <<"restore_term">>
  /\ out = <<>>
  /\ perr = <<>>
  /\ exitCode = NoExit
  /\ restores = <<>>
  /\ rk = [pos |-> "idle", reads |-> <<>>]
  /\ key = NoKey
  /\ buffer = <<>>
  /\ resp = <<>>
  /\ sent = <<>>
  /\ gws = "direct"
  /\ c = NoKey
  /\ prev = <<0, 0>>
  /\ before = NoMove
  /\ keys = 0
  /\ NoFrame

\* One ab_append call of the frame on a heap of MaxHeap bytes: realloc gives
\* a block while the grown buffer fits and fails once it does not. The count
\* of failed calls stops at MaxFails.
RenderAppendHeap ==
  /\ pc \in {"render_head", "editor_draw_rows", "render_tail"}
  /\ todo # <<>>
  /\ LET ok == ab.length + Len(Head(todo)) <= MaxHeap
     IN  /\ ab' = ab_append(ab, Head(todo), ok)
         /\ fails' = IF ok \/ fails >= MaxFails THEN fails ELSE fails + 1
  /\ todo' = Tail(todo)
  /\ UNCHANGED <<pc, out, y>>
  /\ RenderFrame

NextRows ==
  \/ RenderStart
  \/ RenderAppendHeap
  \/ DrawRowsEnter
  \/ DrawRowsNext
  \/ RenderWrite

\* The process runs on as long as it has a next step.
SpecRows == InitRows /\ [][NextRows]_vars /\ WF_vars(NextRows)

(* ------------------------- ab_append, buffer alone -------------------- *)
\* The byte strings of the calls: "A" and "BC".
AbufStrings == {<<65>>, <<66, 67>>}

\* A buffer that starts empty, before any call.
InitAbuf ==
  /\ pc = "ab_append"
  /\ E = [cx |-> 0, cy |-> 0, rows |-> 0, cols |-> 0, orig_term |-> ZeroAttrs]
  /\ term = Cooked
  /\ handlers = <<>>
  /\ out = <<>>
  /\ perr = <<>>
  /\ exitCode = NoExit
  /\ restores = <<>>
  /\ rk = [pos |-> "idle", reads |-> <<>>]
  /\ key = NoKey
  /\ buffer = <<>>
  /\ resp = <<>>
  /\ sent = <<>>
  /\ gws = "none"
  /\ c = NoKey
  /\ prev = <<0, 0>>
  /\ before = NoMove
  /\ keys = 0
  /\ NoFrame

\* One call of ab_append with any of the strings; realloc gives a block or fails.
AbAppendCall ==
  /\ pc = "ab_append"
  /\ Len(calls) < MaxAppends
  /\ \E s \in AbufStrings, ok \in BOOLEAN :
       /\ ab' = ab_append(ab, s, ok)
       /\ calls' = Append(calls, [s |-> s, ok |-> ok])
  /\ UNCHANGED <<pc, E, term, handlers, out, perr, exitCode, restores, rk, key, buffer,
                 resp, sent, gws, c, prev, before, keys, todo, y, fails>>

NextAbuf == AbAppendCall

SpecAbuf == InitAbuf /\ [][NextAbuf]_vars

(* ------------------------------- properties --------------------------- *)
Min(a, b) == IF a < b THEN a ELSE b
Max(a, b) == IF a > b THEN a ELSE b

\* C1: for every geometry with rows > 0 and cols > 0, from the cursor (0, 0)
\* and after any sequence of arrow moves, the cursor is inside
\* [0, rows-1] x [0, cols-1].
C1_CursorInBounds ==
  /\ 0 <= E.cy /\ E.cy <= E.rows - 1
  /\ 0 <= E.cx /\ E.cx <= E.cols - 1

\* A Left move from the top-left cell of a geometry of several rows and
\* columns: the row clamp has acted.
C1_Witness ==
  /\ c = ARROW_LEFT /\ prev = <<0, 0>>
  /\ E.rows > 1 /\ E.cols > 1
  /\ E.cx = E.cols - 1 /\ E.cy = 0

\* C2: the wrap laws. Left at column 0 gives (max(row-1, 0), cols-1); Right at
\* column cols-1 gives (min(row+1, rows-1), 0); Up at row 0 gives (rows-1, col);
\* Down at row rows-1 gives (0, col); a move that is not at its edge changes
\* only the moved coordinate, by exactly one.
C2_WrapLaws ==
  LET col == prev[1]
      row == prev[2]
  IN  /\ c = ARROW_LEFT =>
           IF col = 0
             THEN E.cy = Max(row - 1, 0) /\ E.cx = E.cols - 1
             ELSE E.cy = row /\ E.cx = col - 1
      /\ c = ARROW_RIGHT =>
           IF col = E.cols - 1
             THEN E.cy = Min(row + 1, E.rows - 1) /\ E.cx = 0
             ELSE E.cy = row /\ E.cx = col + 1
      /\ c = ARROW_UP =>
           IF row = 0
             THEN E.cy = E.rows - 1 /\ E.cx = col
             ELSE E.cy = row - 1 /\ E.cx = col
      /\ c = ARROW_DOWN =>
           IF row = E.rows - 1
             THEN E.cy = 0 /\ E.cx = col
             ELSE E.cy = row + 1 /\ E.cx = col

\* An Up move from row 0 of a geometry of three rows or more has wrapped to
\* the last row, away from column 0.
C2_Witness ==
  /\ c = ARROW_UP /\ prev[2] = 0 /\ prev[1] > 0
  /\ E.rows > 2 /\ E.cy = E.rows - 1 /\ E.cx = prev[1]

\* The bytes of the terminal's answer to the position request, pauses left out.
SentBytes ==
  LET d == SelectSeq(sent, LAMBDA o : o.ret = 1)
  IN  [j \in 1..Len(d) |-> d[j].c]

\* The values a field of a position report takes in the properties.
ReportValues == 0..99

\* bs is the report ESC '[' r ';' w 'R'.
WellFormedReport(bs, r, w) ==
  bs = <<ESC, ChLBracket>> \o Dec(r) \o <<ChSemicolon>> \o Dec(w) \o <<ChR>>

\* bs starts with the introducer pair followed by two integers separated by ';'.
HasTwoIntegers(bs) ==
  /\ Len(bs) >= 2 /\ bs[1] = ESC /\ bs[2] = ChLBracket
  /\ \E r \in ReportValues, w \in ReportValues :
       LET f == Dec(r) \o <<ChSemicolon>> \o Dec(w)
       IN  Len(bs) >= 2 + Len(f) /\ SubSeq(bs, 3, 2 + Len(f)) = f

\* A write that is a frame of editor_refresh_screen: it starts by hiding the cursor.
IsFrame(w) == Len(w) >= Len(CURSOR_HIDE) /\ SubSeq(w, 1, Len(CURSOR_HIDE)) = CURSOR_HIDE

\* The reads of the last call of editor_read_key from its first byte on.
KeyReads ==
  LET f == CHOOSE j \in 1..Len(rk.reads) :
             rk.reads[j].ret = 1 /\ \A i \in 1..(j - 1) : rk.reads[i].ret # 1
  IN  SubSeq(rk.reads, f, Len(rk.reads))

\* C3: when the fallback is taken and the terminal answers ESC '[' r ';' w 'R'
\* with r and w positive, get_window_size succeeds with rows = r and cols = w.
C3_FallbackResolves ==
  (gws \in {"ok", "failed"} /\ sent # <<>>) =>
    \A r \in ReportValues \ {0}, w \in ReportValues \ {0} :
      WellFormedReport(SentBytes, r, w) => gws = "ok" /\ E.rows = r /\ E.cols = w

\* C4: whenever geometry resolution has succeeded, by the direct query or by
\* the fallback, rows > 0 and cols > 0, in every state from then on.
C4_GeometryPositive ==
  gws \in {"direct", "ok"} => E.rows > 0 /\ E.cols > 0

\* C5: a call of editor_read_key returns the Escape key for ESC followed by a
\* timeout on the first or on the second follow-up read, the arrow key for ESC
\* '[' and 'A', 'B', 'C' or 'D', and any first byte other than ESC as that byte.
C5_Decoding ==
  key # NoKey =>
    LET r == KeyReads
    IN  /\ r[1].c # ESC => key = r[1].c
        /\ (r[1].c = ESC /\ r[2] = NoData) => key = ESC
        /\ (r[1].c = ESC /\ r[2].ret = 1 /\ r[3] = NoData) => key = ESC
        /\ (r[1].c = ESC /\ r[2] = Data(ChLBracket) /\ r[3] = Data(ChA)) => key = ARROW_UP
        /\ (r[1].c = ESC /\ r[2] = Data(ChLBracket) /\ r[3] = Data(ChB)) => key = ARROW_DOWN
        /\ (r[1].c = ESC /\ r[2] = Data(ChLBracket) /\ r[3] = Data(ChC)) => key = ARROW_RIGHT
        /\ (r[1].c = ESC /\ r[2] = Data(ChLBracket) /\ r[3] = Data(ChD)) => key = ARROW_LEFT

\* The event loop has read ESC '[' 'D' after a retried first read and moved the
\* cursor left with the arrow key returned.
C5_Witness ==
  /\ key = ARROW_LEFT /\ c = ARROW_LEFT
  /\ rk.reads = <<NoData, Data(ESC), Data(ChLBracket), Data(ChD)>>
  /\ E.cx = E.cols - 1

\* C6: ESC followed by two bytes that are not '[' and an arrow letter returns
\* the Escape key and raises no read error; a call consumes at most three
\* bytes, and exactly one when the first byte is not ESC.
C6_UnrecognisedIsEscape ==
  /\ Cardinality({j \in DOMAIN rk.reads : rk.reads[j].ret = 1}) <= 3
  /\ key # NoKey =>
       LET r == KeyReads
       IN  /\ r[1].c # ESC => Len(r) = 1
           /\ ( /\ r[1].c = ESC /\ r[2].ret = 1 /\ r[3].ret = 1
                /\ ~(r[2].c = ChLBracket /\ r[3].c \in {ChA, ChB, ChC, ChD}) ) =>
                ( /\ key = ESC
                  /\ \A j \in DOMAIN perr : perr[j] # "read" )

\* The event loop has read ESC '[' '[' and got the Escape key, the cursor unmoved.
C6_Witness ==
  /\ key = ESC /\ c = ESC
  /\ rk.reads = <<Data(ESC), Data(ChLBracket), Data(ChLBracket)>>
  /\ <<E.cx, E.cy>> = prev /\ pc = "refresh"

\* C7: a read of editor_read_key that fails with a genuine error (not the
\* no-data condition) is fatal: the process exits with the read error, for the
\* first byte and for the two follow-up reads alike.
C7_ReadFailuresFatal ==
  \A j \in DOMAIN rk.reads :
    IsFatalRead(rk.reads[j]) =>
      /\ key = NoKey
      /\ exitCode # NoExit /\ exitCode # 0
      /\ \E i \in DOMAIN perr : perr[i] = "read"

\* C8: in the fallback, an answer that does not begin with ESC '[' or does not
\* hold two integers separated by ';' makes the resolution fail, and a failed
\* resolution ends the process with a non-zero status before any frame.
C8_MalformedFails ==
  /\ (gws = "ok" /\ sent # <<>>) => HasTwoIntegers(SentBytes)
  /\ gws = "failed" =>
       /\ pc \in {"exit", "done"}
       /\ exitCode # NoExit /\ exitCode # 0
       /\ \A j \in DOMAIN out : ~IsFrame(out[j])

\* C9: once the original attributes are captured, restore_term runs exactly
\* once before the process ends, never more, and when its tcsetattr succeeds
\* the terminal ends with the captured attributes.
C9_RestoredOnce ==
  /\ Len(restores) <= 1
  /\ (pc = "done" /\ E.orig_term # ZeroAttrs) =>
       /\ Len(restores) = 1
       /\ restores[1] => term = E.orig_term

\* The user has quit from raw mode and the process has ended with the
\* terminal back at the captured attributes.
C9_Witness ==
  /\ pc = "done" /\ exitCode = 0 /\ c = CTRL_KEY(ChQ)
  /\ restores = <<TRUE>>
  /\ term = E.orig_term /\ term # RawOf(E.orig_term)

\* C10: after the quit key is decoded the process writes exactly the
\* clear-screen and the home sequence, nothing else, and ends with status 0.
C10_QuitWrites ==
  (c = CTRL_KEY(ChQ) /\ pc = "done") =>
    /\ \E j \in DOMAIN out :
         /\ IsFrame(out[j])
         /\ SubSeq(out, j + 1, Len(out)) = <<CLEAR_SCREEN, CURSOR_REPOSITION>>
    /\ exitCode = 0

\* The last element of a non-empty sequence.
Last(q) == q[Len(q)]

\* C11: every fatal error ends the process with a non-zero status, after an
\* attempt to restore the original attributes and after the clear-screen and
\* the home sequence were written.
C11_FatalErrorsRestore ==
  (pc = "done" /\ perr # <<>>) =>
    /\ exitCode # NoExit /\ exitCode # 0
    /\ Len(restores) >= 1
    /\ \E j \in 1..(Len(out) - 1) : out[j] = CLEAR_SCREEN /\ out[j + 1] = CURSOR_REPOSITION

\* C12: the frame is the hide-cursor sequence, the home sequence, the rows,
\* the cursor-to-coordinates sequence of the cursor and the show-cursor
\* sequence, with no other byte between the last row and the show-cursor
\* sequence.
C12_FrameOrder ==
  (pc = "written" /\ fails = 0) =>
    Last(out) = CURSOR_HIDE \o CURSOR_REPOSITION \o DrawRows(0, E)
                  \o CursorTo(E) \o CURSOR_SHOW

\* The rows as stated: the clear-line sequence, the title on row 0 only, the
\* diagnostic string on the last row, CR LF after every other row.
RECURSIVE StatedRows(_, _)
StatedRows(r, e) ==
  IF r < e.rows
    THEN CLEAR_LINE \o (IF r = 0 THEN TitleText(e) ELSE <<>>)
           \o (IF r < e.rows - 1 THEN CRLF ELSE DebugLine(e))
           \o StatedRows(r + 1, e)
    ELSE <<>>

\* The bytes of a whole frame w that editor_draw_rows appended.
RowsOf(w) ==
  SubSeq(w, Len(CURSOR_HIDE) + Len(CURSOR_REPOSITION) + 1,
         Len(w) - CursorBufSize - Len(CURSOR_SHOW))

\* C13: a row other than row 0 and the last is the clear-line sequence alone,
\* row 0 carries only the centred title, the last row only the diagnostic
\* string, and CR LF stands between rows and not after the last.
C13_RowsContent ==
  (pc = "written" /\ fails = 0) => RowsOf(Last(out)) = StatedRows(0, E)

\* The number of bytes of row 0 of the rows q between the clear-line sequence
\* and the first CR LF.
Row0TextLen(q) ==
  LET i == CHOOSE j \in 1..(Len(q) - 1) :
             /\ q[j] = 13 /\ q[j + 1] = 10
             /\ \A h \in 1..(j - 1) : ~(q[h] = 13 /\ q[h + 1] = 10)
  IN  i - 1 - Len(CLEAR_LINE)

\* C14: with cols > 0, the text of row 0 between the clear-line sequence and
\* the row separator is at most cols bytes long.
C14_TitleRowFits ==
  (pc = "written" /\ fails = 0 /\ E.rows > 1 /\ E.cols > 0) =>
    Row0TextLen(RowsOf(Last(out))) <= E.cols

\* C15: a call of editor_refresh_screen makes exactly one write, after its
\* last ab_append; nothing is written from the first ab_append to that write.
C15_OneWrite ==
  /\ pc \in {"editor_refresh_screen", "render_head", "editor_draw_rows", "render_tail"} =>
       out = <<>>
  /\ pc = "written" => Len(out) = 1 /\ todo = <<>> /\ y >= E.rows

\* A call has returned after one write, of a frame of several rows whose
\* composition met a failed realloc.
C15_Witness ==
  /\ pc = "written" /\ Len(out) = 1
  /\ E.rows > 1 /\ fails = 1 /\ out[1] # <<>>

\* C16: whatever calls of realloc fail, the bytes handed to the write are the
\* whole frame or nothing.
C16_AllOrNothing ==
  pc = "written" => Last(out) = Frame(E) \/ Last(out) = <<>>

\* The bytes of the calls of cs that got their block, in order.
RECURSIVE Appended(_)
Appended(cs) ==
  IF cs = <<>> THEN <<>>
  ELSE (IF Head(cs).ok THEN Head(cs).s ELSE <<>>) \o Appended(Tail(cs))

\* C17: after any calls of ab_append on a buffer that started empty, any of
\* them failing, the content is the bytes of the successful calls in call
\* order and the length is the sum of their lengths; a failed call changes
\* neither.
C17_AppendLaw ==
  pc = "ab_append" =>
    /\ SubSeq(ab.str, 1, ab.length) = Appended(calls)
    /\ ab.length = Len(Appended(calls))
    /\ (calls # <<>> /\ ~Last(calls).ok) =>
         SubSeq(ab.str, 1, ab.length) = Appended(SubSeq(calls, 1, Len(calls) - 1))

\* "A" was appended, a call with "BC" failed, a second one succeeded: "ABC".
C17_Witness ==
  /\ calls = <<[s |-> <<65>>, ok |-> TRUE], [s |-> <<66, 67>>, ok |-> FALSE],
               [s |-> <<66, 67>>, ok |-> TRUE]>>
  /\ ab.str = <<65, 66, 67>> /\ ab.length = 3

\* The number of frames written.
FrameCount == Cardinality({j \in DOMAIN out : IsFrame(out[j])})

\* C18: in every cycle the frame is written before the key of the cycle is
\* read, and one key is dispatched between two frames: never two keys
\* without a frame between them.
C18_RenderThenKey ==
  /\ keys <= FrameCount /\ FrameCount <= keys + 1
  /\ pc = "editor_process_keypress" => FrameCount = keys + 1
  /\ pc = "refresh" => FrameCount = keys

\* The third cycle waits for its key: three frames, two keys dispatched.
C18_Witness ==
  /\ pc = "editor_process_keypress" /\ rk.pos = "first"
  /\ keys = 2 /\ FrameCount = 3 /\ IsFrame(Last(out))

\* C19: the dispatch of a key other than the quit key and the four arrows
\* leaves the cursor where it was; the dispatch of any key leaves the
\* geometry and the captured attributes as they were.
C19_DispatchFrame ==
  [][keys' = keys + 1 =>
       /\ E'.rows = E.rows /\ E'.cols = E.cols /\ E'.orig_term = E.orig_term
       /\ c' \notin (ArrowKeys \cup {CTRL_KEY(ChQ)}) => (E'.cx = E.cx /\ E'.cy = E.cy)]_vars

\* The printable byte 'A' was dispatched as the second key, after a move of
\* the cursor, and left the cursor where the move had put it.
C19_Witness ==
  /\ c = ChA /\ keys = 2 /\ pc = "refresh"
  /\ <<E.cx, E.cy>> = prev /\ prev # <<0, 0>>

\* C20: from a cursor inside the geometry, Up and Down leave the column as it
\* was, and Left and Right change the row by one at most.
C20_WrapsIndependent ==
  /\ c \in {ARROW_UP, ARROW_DOWN} => E.cx = prev[1]
  /\ c \in {ARROW_LEFT, ARROW_RIGHT} => (E.cy - prev[2]) \in {0 - 1, 0, 1}

\* A Right move at the last column, a row above the last, has gone to the
\* start of the next row, two rows or more below the first.
C20_Witness ==
  /\ c = ARROW_RIGHT /\ prev[1] = E.cols - 1 /\ E.cols > 1
  /\ prev[2] >= 1 /\ E.cy = prev[2] + 1 /\ E.cx = 0

\* C21: every call of editor_refresh_screen starts from an empty buffer: a
\* write holds nothing of an earlier call, and calls with the same geometry
\* and cursor, no realloc failing, write the same bytes.
C21_FreshBuffer ==
  /\ \A j \in DOMAIN out : Len(out[j]) <= Len(Frame(E))
  /\ fails = 0 => \A j \in DOMAIN out : out[j] = Frame(E)
  /\ pc = "render_head" => Len(ab.str) <= Len(CURSOR_HIDE) + Len(CURSOR_REPOSITION)

\* A second call has written its frame after a key that left the cursor, and
\* the two frames are the same bytes.
C21_Witness ==
  /\ pc = "written" /\ Len(out) = 2 /\ fails = 0
  /\ c \in StillKeys /\ keys = 1
  /\ out[1] = out[2] /\ out[2] # <<>> /\ ab.str = out[2]

\* C22: for every geometry with rows > 0, row counts of 256 and more
\* included, the row loop of editor_draw_rows ends after rows rows and the
\* call of editor_refresh_screen reaches its write.
C22_LoopEnds == <>(pc = "written")

\* The number of bytes of the terminal's answer that get_cursor_position has
\* taken through editor_read_key.
ConsumedBytes ==
  Len(SelectSeq(SubSeq(sent, 1, Len(sent) - Len(resp)), LAMBDA o : o.ret = 1))

\* C23: get_cursor_position stores at most 31 bytes of the answer and a
\* terminator in its 32-byte buffer, stops at the first 'R' or on a full
\* buffer, and reads no element of the buffer that this call has not written
\* (the printf reads from buffer[1] on; the buffer of the model holds the
\* elements written, buffer[0] first).
C23_BufferReads ==
  (gws \in {"ok", "failed"} /\ buffer # <<>>) =>
    /\ Len(buffer) <= ReportBufSize
    /\ Len(buffer) >= 2
    /\ \A j \in DOMAIN SentBytes : SentBytes[j] = ChR => ConsumedBytes <= j

\* C24: from every cursor inside a geometry with rows > 0 and cols > 0, Right
\* then Left ends where it started, unless it started at the bottom-right
\* cell with rows > 1; Left then Right ends where it started, unless it
\* started at the top-left cell with rows > 1.
C24_RoundTrip ==
  LET start == before[2]
      now == <<E.cx, E.cy>>
  IN  /\ (before[1] = ARROW_RIGHT /\ c = ARROW_LEFT) =>
           (start = <<E.cols - 1, E.rows - 1>> /\ E.rows > 1) \/ now = start
      /\ (before[1] = ARROW_LEFT /\ c = ARROW_RIGHT) =>
           (start = <<0, 0>> /\ E.rows > 1) \/ now = start

\* Right from the last column of a row above the last wrapped to the next
\* row, and the Left that followed wrapped back to where the pair started.
C24_Witness ==
  /\ before[1] = ARROW_RIGHT /\ c = ARROW_LEFT
  /\ E.cols > 1 /\ E.rows > 2
  /\ before[2] = <<E.cols - 1, 1>> /\ prev = <<0, 2>>
  /\ <<E.cx, E.cy>> = before[2]

====
